---- MODULE Spec2Model ----
(***************************************************************************)
(* The SMTP dispatch engine of src/bnetd/smtp.cpp: the process-wide        *)
(* configuration, the pool of two (curl multi handle, mutex) slots, the    *)
(* smtp_consumer thread, smtp_init / smtp_reconfig / smtp_cleanup called   *)
(* by the controlling thread, smtp_send_email called by sender threads,    *)
(* and the read_callback that streams a composed message to the transport. *)
(*                                                                         *)
(* Every sender thread makes one smtp_send_email call that gets past the   *)
(* test of the flag (and any number that do not): sender s builds          *)
(* transfer s.                                                             *)
(***************************************************************************)
EXTENDS Integers, Sequences, FiniteSets, TLC

\* ------------------------------------------------------------------ bounds
NumSenders == 2
NumFairSenders == 1
MaxBody == 2
MaxCap == 3

\* ------------------------------------------------------- program constants
NumSlots == 2
MaxPort == 65535

Senders == 1..NumSenders
FairSenders == 1..NumFairSenders
Slots == 1..NumSlots

\* Owners of a slot's std::mutex: nobody, a sender thread (1..NumSenders), or
\* the smtp_consumer thread.
Unlocked == 0
ConsumerTid == -1

\* A null char pointer handed to smtp_init / smtp_reconfig.
Null == "nullptr"

\* The arguments the controlling thread draws from: every combination of a
\* present or absent string and a port below, at and above the limit.
CaArgs == {Null, "/ca.pem"}
HostArgs == {Null, "mail.example.com"}
PortArgs == {587, 65535, 65536}
UserArgs == {Null, "user"}
PassArgs == {Null, "pw"}
ConfigArgs == CaArgs \X HostArgs \X PortArgs \X UserArgs \X PassArgs

\* The arguments used where sender threads run as well: one valid
\* configuration and one with the port out of range.
MainArgs == {a \in ConfigArgs : a[1] # Null /\ a[2] # Null /\ a[3] # MaxPort /\ a[4] # Null /\ a[5] # Null}

\* Two valid configurations that differ in the port and the username, for the
\* runs in which the configuration is replaced beside running senders.
ReconfigArgs == {<<"/ca.pem", "mail.example.com", 587, "user", "pw">>,
                 <<"/ca.pem", "mail.example.com", 465, "user2", "pw">>}

\* The arguments of smtp_send_email that make up a message, and the clock.
Bodies == UNION {[1..n -> {"a", "b"}] : n \in 0..MaxBody}
MessageInputs == [to_address : {"to@example.com"}, from_address : {"from@example.com"},
                  from_name : {"PvPGN"}, subject : {"subject"}, message : Bodies,
                  now : {"Thu, 01 Jan 2026 00:00:00 +0000"}]

VARIABLES
    \* process-wide state (lines 45-52)
    is_curl_initialized,
    smtp_thread,              \* "none" | "check" | "try" | "hold" | "exited"
    consumer_slot,            \* the slot the consumer's for loop is at
    curl_multi_handle,        \* [Slots -> "null" | "live" | "freed"]
    curl_multi_handle_mutex,  \* [Slots -> owner]
    attached,                 \* [Slots -> SUBSET Senders]: easy handles in the slot's multi
    smtp_ca_cert_store,
    smtp_server_url,
    smtp_port,
    smtp_username,
    smtp_password,
    \* libcurl resources
    curl_global,              \* number of live global contexts
    multi_leaked,             \* a live multi handle's only pointer was overwritten
    easy,                     \* [Senders -> "none" | "live" | "freed"]
    recipient,                \* [Senders -> "none" | "live" | "freed"]
    rcbmessage,               \* [Senders -> "none" | "live" | "freed"]
    easy_opts,                \* [Senders -> the options the easy handle captured]
    added_to_released,        \* transfers added to a multi handle already cleaned up
    \* the controlling thread
    ctl_pc,                   \* "idle" | "init_flag" | "join" | "release" | "global"
    ctl_slot,                 \* the slot smtp_cleanup's for loop is at
    last_event,               \* the last return of a lifecycle call or of a send that did nothing
    \* sender threads
    send_pc,                  \* [Senders -> "idle" | "build" | "spin" | "locked" | "returned"]
    send_slot,                \* [Senders -> the slot the for loop is at]
    send_seen,                \* [Senders -> the configurations in effect since the call began,
                              \*  kept until the transfer is created]
    aborted,                  \* the process was aborted by undefined behaviour
    \* the streaming state of one message (lines 54-58, 119-133, 294-299)
    rcb_pc,                   \* "off" | "new" | "streaming"
    rcb_input,                \* the arguments of smtp_send_email that make the message
    rcb_message,              \* rcbmessage->message
    rcb_bytes_remaining,      \* rcbmessage->bytes_remaining
    rcb_buffer_size,          \* size * nitems of the last call
    rcb_before,               \* bytes_remaining before the last call
    rcb_chunk,                \* what the last call copied into the buffer
    rcb_ret,                  \* what the last call returned (-1: not called yet)
    rcb_sent                  \* every chunk so far, concatenated

cfg_vars == <<smtp_ca_cert_store, smtp_server_url, smtp_port, smtp_username, smtp_password>>
pool_vars == <<curl_multi_handle, curl_multi_handle_mutex, attached>>
consumer_vars == <<smtp_thread, consumer_slot>>
res_vars == <<curl_global, multi_leaked, easy, recipient, rcbmessage, easy_opts, added_to_released>>
ctl_vars == <<ctl_pc, ctl_slot>>
send_vars == <<send_pc, send_slot, send_seen>>
rcb_vars == <<rcb_pc, rcb_input, rcb_message, rcb_bytes_remaining, rcb_buffer_size, rcb_before, rcb_chunk, rcb_ret, rcb_sent>>
vars == <<is_curl_initialized, cfg_vars, pool_vars, consumer_vars, res_vars, ctl_vars,
          last_event, send_vars, aborted, rcb_vars>>

\* ----------------------------------------------------------- configuration

\* The configuration snapshot as one record.
Config == [ca |-> smtp_ca_cert_store, url |-> smtp_server_url, port |-> smtp_port,
           user |-> smtp_username, pw |-> smtp_password]

\* Static storage before any smtp_config: empty strings, a zeroed url buffer, port 0.
UnsetConfig == [ca |-> "", url |-> <<>>, port |-> 0, user |-> "", pw |-> ""]

\* std::snprintf(smtp_server_url, ..., "smtps://%s", host)
ServerUrl(host) == <<"smtps://", host>>

\* smtp_config with the stores of the CA path, the url and the port moved before
\* the tests.
smtp_config_store_first(cur, ca, host, port, user, pw) ==
    LET stored == [cur EXCEPT !.ca = IF ca = Null THEN cur.ca ELSE ca,
                              !.url = IF host = Null THEN cur.url ELSE ServerUrl(host),
                              !.port = port]
    IN  IF ca = Null \/ host = Null \/ port > MaxPort \/ user = Null \/ pw = Null
        THEN [ok |-> FALSE, cfg |-> stored]
        ELSE [ok |-> TRUE,
              cfg |-> [ca |-> ca, url |-> ServerUrl(host), port |-> port, user |-> user, pw |-> pw]]

\* smtp_config: [ok, cfg], cfg being the snapshot the call leaves behind.
smtp_config(cur, ca, host, port, user, pw) ==
    IF ca = Null THEN [ok |-> FALSE, cfg |-> cur]
    ELSE IF host = Null THEN [ok |-> FALSE, cfg |-> cur]
    ELSE IF port > MaxPort THEN [ok |-> FALSE, cfg |-> cur]
    ELSE IF user = Null THEN [ok |-> FALSE, cfg |-> cur]
    ELSE IF pw = Null THEN [ok |-> FALSE, cfg |-> cur]
    ELSE [ok |-> TRUE,
          cfg |-> [ca |-> ca, url |-> ServerUrl(host), port |-> port, user |-> user, pw |-> pw]]

\* The configurations a sender between its test of the flag and its reads of
\* the configuration (lines 254-272) has run beside, in order of appearance,
\* once configuration c is stored: the stores take no lock, so its reads may
\* fall before, between or after them.
Seen(c) ==
    [s \in Senders |->
        IF send_pc[s] = "build" /\ \A k \in 1..Len(send_seen[s]) : send_seen[s][k] # c
        THEN Append(send_seen[s], c)
        ELSE send_seen[s]]

\* The stores of smtp_config (lines 173-178), c being the snapshot they leave.
SetConfig(c) ==
    /\ smtp_ca_cert_store' = c.ca
    /\ smtp_server_url' = c.url
    /\ smtp_port' = c.port
    /\ smtp_username' = c.user
    /\ smtp_password' = c.pw
    /\ send_seen' = Seen(c)

\* ------------------------------------------------------------ initial state

\* What last_event holds: who returned, with what, from a call with which
\* configuration arguments (none for a send).
Controller == 0
Event(who, what, args) == [who |-> who, what |-> what, args |-> args]

RcbOff ==
    /\ rcb_pc = "off"
    /\ rcb_input = <<>>
    /\ rcb_message = <<>>
    /\ rcb_bytes_remaining = 0
    /\ rcb_buffer_size = 0
    /\ rcb_before = 0
    /\ rcb_chunk = <<>>
    /\ rcb_ret = -1
    /\ rcb_sent = <<>>

ProcessStart ==
    /\ is_curl_initialized = FALSE
    /\ smtp_thread = "none"
    /\ consumer_slot = 1
    /\ curl_multi_handle = [i \in Slots |-> "null"]
    /\ curl_multi_handle_mutex = [i \in Slots |-> Unlocked]
    /\ attached = [i \in Slots |-> {}]
    /\ smtp_ca_cert_store = UnsetConfig.ca
    /\ smtp_server_url = UnsetConfig.url
    /\ smtp_port = UnsetConfig.port
    /\ smtp_username = UnsetConfig.user
    /\ smtp_password = UnsetConfig.pw
    /\ curl_global = 0
    /\ multi_leaked = FALSE
    /\ easy = [t \in Senders |-> "none"]
    /\ recipient = [t \in Senders |-> "none"]
    /\ rcbmessage = [t \in Senders |-> "none"]
    /\ easy_opts = [t \in Senders |-> UnsetConfig]
    /\ added_to_released = {}
    /\ ctl_pc = "idle"
    /\ ctl_slot = 1
    /\ last_event = Event(Controller, "start", <<>>)
    /\ send_pc = [s \in Senders |-> "idle"]
    /\ send_slot = [s \in Senders |-> 1]
    /\ send_seen = [s \in Senders |-> <<>>]
    /\ aborted = FALSE

Init == ProcessStart /\ RcbOff

\* The process runs: it was not aborted, and this is not the run of one message's
\* streaming state alone.
Running == ~aborted /\ rcb_pc = "off"

\* ------------------------------------------------- the controlling thread

\* The outcomes of smtp_init's allocations: every allocation succeeds, the
\* curl_multi_init of slot k fails, or curl_global_init fails.
AllocOk == 0
GlobalInitFails == NumSlots + 1
AllocOutcomes == {AllocOk} \cup Slots \cup {GlobalInitFails}

\* The slots whose pointer the allocation loop assigns before it stops.
Assigned(fail_at) == {i \in Slots : fail_at \notin Slots \/ i <= fail_at}

\* The slot pointers after the allocation loop (lines 202-211).
AllocHandles(fail_at) ==
    [i \in Slots |-> IF i \notin Assigned(fail_at) THEN curl_multi_handle[i]
                     ELSE IF i = fail_at THEN "null" ELSE "live"]

\* "There must only be exactly one call to smtp_init() and smtp_cleanup()"
\* (lines 181-184): smtp_init is called again after it failed or while the
\* component is initialized, never after an smtp_cleanup that released the pool.
PoolNeverReleased == \A i \in Slots : curl_multi_handle[i] # "freed"

\* smtp_init without its test of the flag.
InitGuard_absent == FALSE

\* if (is_curl_initialized) of smtp_init (line 190).
InitGuard == is_curl_initialized

\* smtp_init up to and including the start of smtp_thread (lines 188-219).
smtp_init(ca, host, port, user, pw, fail_at) ==
    /\ Running
    /\ ctl_pc = "idle"
    /\ PoolNeverReleased
    /\ InitGuard \/ ~smtp_config(Config, ca, host, port, user, pw).ok => fail_at = AllocOk
    /\ IF InitGuard
       THEN /\ last_event' = Event(Controller, "init: already initialized", <<ca, host, port, user, pw>>)
            /\ UNCHANGED <<is_curl_initialized, cfg_vars, pool_vars, consumer_vars, res_vars,
                           ctl_vars, send_vars, aborted, rcb_vars>>
       ELSE LET r == smtp_config(Config, ca, host, port, user, pw)
                lost == {i \in Assigned(fail_at) : curl_multi_handle[i] = "live"}
            IN  IF ~r.ok
                THEN /\ SetConfig(r.cfg)
                     /\ last_event' = Event(Controller, "init: config rejected", <<ca, host, port, user, pw>>)
                     /\ UNCHANGED <<is_curl_initialized, pool_vars, consumer_vars, res_vars,
                                    ctl_vars, send_pc, send_slot, aborted, rcb_vars>>
                ELSE /\ SetConfig(r.cfg)
                     /\ multi_leaked' = (multi_leaked \/ lost # {})
                     /\ curl_multi_handle' = AllocHandles(fail_at)
                     /\ attached' = [i \in Slots |-> IF i \in Assigned(fail_at) THEN {} ELSE attached[i]]
                     /\ IF fail_at \in Slots
                        THEN /\ last_event' = Event(Controller, "init: multi handle failed", <<ca, host, port, user, pw>>)
                             /\ UNCHANGED <<curl_global, consumer_vars, ctl_vars>>
                        ELSE IF fail_at = GlobalInitFails
                        THEN /\ last_event' = Event(Controller, "init: global context failed", <<ca, host, port, user, pw>>)
                             /\ UNCHANGED <<curl_global, consumer_vars, ctl_vars>>
                        ELSE /\ curl_global' = curl_global + 1
                             /\ smtp_thread' = "check"
                             /\ ctl_pc' = "init_flag"
                             /\ UNCHANGED <<consumer_slot, ctl_slot, last_event>>
                     /\ UNCHANGED <<is_curl_initialized, curl_multi_handle_mutex, easy, recipient,
                                    rcbmessage, easy_opts, added_to_released, send_pc, send_slot,
                                    aborted,
                                    rcb_vars>>

\* is_curl_initialized = true; return true; (lines 221-223)
smtp_init_set_flag ==
    /\ Running
    /\ ctl_pc = "init_flag"
    /\ is_curl_initialized' = TRUE
    /\ ctl_pc' = "idle"
    /\ last_event' = Event(Controller, "init: ok", <<>>)
    /\ UNCHANGED <<cfg_vars, pool_vars, consumer_vars, res_vars, ctl_slot, send_vars, aborted,
                   rcb_vars>>

\* An smtp_reconfig that builds the pool anew as smtp_init does.
smtp_reconfig_resets_pool(ca, host, port, user, pw) ==
    /\ Running
    /\ ctl_pc = "idle"
    /\ LET r == smtp_config(Config, ca, host, port, user, pw)
       IN  /\ SetConfig(r.cfg)
           /\ last_event' = Event(Controller, IF r.ok THEN "reconfig: ok" ELSE "reconfig: config rejected",
                                 <<ca, host, port, user, pw>>)
           /\ curl_multi_handle' = IF r.ok THEN [i \in Slots |-> "live"] ELSE curl_multi_handle
           /\ attached' = IF r.ok THEN [i \in Slots |-> {}] ELSE attached
    /\ UNCHANGED <<is_curl_initialized, curl_multi_handle_mutex, consumer_vars, res_vars, ctl_vars,
                   send_pc, send_slot, aborted, rcb_vars>>

\* smtp_reconfig (lines 226-229).
smtp_reconfig(ca, host, port, user, pw) ==
    /\ Running
    /\ ctl_pc = "idle"
    /\ LET r == smtp_config(Config, ca, host, port, user, pw)
       IN  /\ SetConfig(r.cfg)
           /\ last_event' = Event(Controller, IF r.ok THEN "reconfig: ok" ELSE "reconfig: config rejected",
                                 <<ca, host, port, user, pw>>)
    /\ UNCHANGED <<is_curl_initialized, pool_vars, consumer_vars, res_vars, ctl_vars, send_pc,
                   send_slot,
                   aborted, rcb_vars>>

\* smtp_cleanup: the test of the flag and its clearing (lines 233-235).
smtp_cleanup ==
    /\ Running
    /\ ctl_pc = "idle"
    /\ IF is_curl_initialized
       THEN /\ is_curl_initialized' = FALSE
            /\ ctl_pc' = "join"
            /\ UNCHANGED <<ctl_slot, last_event>>
       ELSE /\ last_event' = Event(Controller, "cleanup: not initialized", <<>>)
            /\ UNCHANGED <<is_curl_initialized, ctl_vars>>
    /\ UNCHANGED <<cfg_vars, pool_vars, consumer_vars, res_vars, send_vars, aborted, rcb_vars>>

\* A join that does not wait.
ConsumerReturned_nowait == TRUE

\* What smtp_thread.join() waits for (line 238): smtp_consumer has returned.
ConsumerReturned == smtp_thread = "exited"

\* smtp_thread.join() (line 238): returns once smtp_consumer has returned.
smtp_cleanup_join ==
    /\ Running
    /\ ctl_pc = "join"
    /\ ConsumerReturned
    /\ smtp_thread' = "none"
    /\ ctl_pc' = "release"
    /\ ctl_slot' = 1
    /\ UNCHANGED <<is_curl_initialized, cfg_vars, pool_vars, consumer_slot, res_vars, last_event,
                   send_vars, aborted, rcb_vars>>

\* curl_multi_cleanup of one slot (lines 241-245): the easy handles still in
\* the multi handle are detached, not freed.
smtp_cleanup_release ==
    /\ Running
    /\ ctl_pc = "release"
    /\ curl_multi_handle' = [curl_multi_handle EXCEPT ![ctl_slot] = "freed"]
    /\ attached' = [attached EXCEPT ![ctl_slot] = {}]
    /\ IF ctl_slot < NumSlots
       THEN ctl_slot' = ctl_slot + 1 /\ ctl_pc' = ctl_pc
       ELSE ctl_slot' = 1 /\ ctl_pc' = "global"
    /\ UNCHANGED <<is_curl_initialized, cfg_vars, curl_multi_handle_mutex, consumer_vars,
                   res_vars, last_event, send_vars, aborted, rcb_vars>>

\* curl_global_cleanup (line 248) and the return.
smtp_cleanup_global ==
    /\ Running
    /\ ctl_pc = "global"
    /\ curl_global' = curl_global - 1
    /\ ctl_pc' = "idle"
    /\ last_event' = Event(Controller, "cleanup: done", <<>>)
    /\ UNCHANGED <<is_curl_initialized, cfg_vars, pool_vars, consumer_vars, multi_leaked, easy,
                   recipient, rcbmessage, easy_opts, added_to_released, ctl_slot, send_vars,
                   aborted, rcb_vars>>

\* ------------------------------------------------------ smtp_consumer thread

\* The consumer's position after it is done with slot i: the next slot of the
\* for loop, or the test of the while loop.
ConsumerAdvance(i) ==
    IF i < NumSlots
    THEN smtp_thread' = "try" /\ consumer_slot' = i + 1
    ELSE smtp_thread' = "check" /\ consumer_slot' = 1

\* while (is_curl_initialized == true) (line 62).
ConsumerLoopTest == is_curl_initialized = TRUE

consumer_check ==
    /\ Running
    /\ smtp_thread = "check"
    /\ IF ConsumerLoopTest
       THEN smtp_thread' = "try" /\ consumer_slot' = 1
       ELSE smtp_thread' = "exited" /\ consumer_slot' = 1
    /\ UNCHANGED <<is_curl_initialized, cfg_vars, pool_vars, res_vars, ctl_vars, last_event,
                   send_vars, aborted, rcb_vars>>

\* A try_lock that succeeds whoever holds the mutex.
TryLock_always(i) == TRUE

\* std::mutex::try_lock on slot i's mutex succeeds (lines 69, 310).
TryLock(i) == curl_multi_handle_mutex[i] = Unlocked

\* curl_multi_handle_mutex.try_lock() (lines 69-72).
consumer_try_lock ==
    /\ Running
    /\ smtp_thread = "try"
    /\ IF TryLock(consumer_slot)
       THEN /\ curl_multi_handle_mutex' = [curl_multi_handle_mutex EXCEPT ![consumer_slot] = ConsumerTid]
            /\ smtp_thread' = "hold"
            /\ UNCHANGED consumer_slot
       ELSE /\ ConsumerAdvance(consumer_slot)
            /\ UNCHANGED curl_multi_handle_mutex
    /\ UNCHANGED <<is_curl_initialized, cfg_vars, curl_multi_handle, attached, res_vars, ctl_vars,
                   last_event, send_vars, aborted, rcb_vars>>

\* What reaping leaves of the easy handles and of the recipient lists of the
\* transfers in done (lines 93-109): each is removed from the multi handle, its
\* recipient list freed, its easy handle cleaned up.
Reaped(res, done) == [t \in Senders |-> IF t \in done THEN "freed" ELSE res[t]]

\* What reaping leaves of the read_callback_message objects: nothing frees them.
ReapedRcb(res, done) == res

\* A reaping that leaves the finished easy handles in the multi handle.
RemoveHandles_absent(in_multi, done) == in_multi

\* curl_multi_remove_handle of every finished transfer (line 99).
RemoveHandles(in_multi, done) == in_multi \ done

\* A loop body that ends without unlocking.
ConsumerUnlock_absent(i) == UNCHANGED curl_multi_handle_mutex

\* curl_multi_handle_mutex.unlock() (line 113).
ConsumerUnlock(i) ==
    curl_multi_handle_mutex' = [curl_multi_handle_mutex EXCEPT ![i] = Unlocked]

\* The rest of the loop body under the slot's lock (lines 74-113): the wait in
\* curl_multi_poll, curl_multi_perform in which the transport finishes the
\* transfers in done, the reaping of every finished transfer, the unlock.
consumer_work(done) ==
    /\ Running
    /\ smtp_thread = "hold"
    /\ done \subseteq attached[consumer_slot]
    /\ attached' = [attached EXCEPT ![consumer_slot] = RemoveHandles(@, done)]
    /\ recipient' = Reaped(recipient, done)
    /\ easy' = Reaped(easy, done)
    /\ rcbmessage' = ReapedRcb(rcbmessage, done)
    /\ ConsumerUnlock(consumer_slot)
    /\ ConsumerAdvance(consumer_slot)
    /\ UNCHANGED <<is_curl_initialized, cfg_vars, curl_multi_handle, curl_global, multi_leaked,
                   easy_opts, added_to_released, ctl_vars, last_event, send_vars, aborted,
                   rcb_vars>>

\* ----------------------------------------------------------- sender threads

\* smtp_send_email without its test of the flag.
SendGuard_absent == FALSE

\* if (!is_curl_initialized) of smtp_send_email (line 254).
SendGuard == ~is_curl_initialized

\* smtp_send_email: the call and the test of the flag (lines 252-258).
send_call(s) ==
    /\ Running
    /\ send_pc[s] = "idle"
    /\ IF SendGuard
       THEN /\ last_event' = Event(s, "send: not initialized", <<>>)
            /\ UNCHANGED <<send_pc, send_seen>>
       ELSE /\ send_pc' = [send_pc EXCEPT ![s] = "build"]
            /\ send_seen' = [send_seen EXCEPT ![s] = <<Config>>]
            /\ UNCHANGED last_event
    /\ UNCHANGED <<is_curl_initialized, cfg_vars, pool_vars, consumer_vars, res_vars, ctl_vars,
                   send_slot, aborted, rcb_vars>>

\* curl_easy_init fails (lines 260-265).
send_easy_init_fails(s) ==
    /\ Running
    /\ send_pc[s] = "build"
    /\ send_pc' = [send_pc EXCEPT ![s] = "idle"]
    /\ send_seen' = [send_seen EXCEPT ![s] = <<>>]
    /\ UNCHANGED <<is_curl_initialized, cfg_vars, pool_vars, consumer_vars, res_vars, ctl_vars,
                   last_event, send_slot, aborted, rcb_vars>>

\* What the five unlocked reads of the configuration (lines 267-272) can give
\* sender s: each field is one its variable held at some time during the call.
TornReads(s) ==
    LET seen == {send_seen[s][k] : k \in 1..Len(send_seen[s])}
    IN  [ca : {c.ca : c \in seen}, url : {c.url : c \in seen}, port : {c.port : c \in seen},
         user : {c.user : c \in seen}, pw : {c.pw : c \in seen}]

\* curl_easy_init succeeds and the options are set from the configuration,
\* then curl_slist_append fails (lines 260-283).
send_recipient_fails(s, opts) ==
    /\ Running
    /\ send_pc[s] = "build"
    /\ opts \in TornReads(s)
    /\ easy' = [easy EXCEPT ![s] = "live"]
    /\ easy_opts' = [easy_opts EXCEPT ![s] = opts]
    /\ send_pc' = [send_pc EXCEPT ![s] = "returned"]
    /\ send_seen' = [send_seen EXCEPT ![s] = <<>>]
    /\ UNCHANGED <<is_curl_initialized, cfg_vars, pool_vars, consumer_vars, curl_global,
                   multi_leaked, recipient, rcbmessage, added_to_released, ctl_vars, last_event,
                   send_slot, aborted, rcb_vars>>

\* The transfer is built (lines 260-301): easy handle, recipient list, and the
\* read_callback_message, whose std::string member is assigned to in memory
\* that xmalloc returned and no constructor ran on: the assignment is undefined
\* and either goes through or aborts the process.
send_build(s, opts, ub_aborts) ==
    /\ Running
    /\ send_pc[s] = "build"
    /\ opts \in TornReads(s)
    /\ easy' = [easy EXCEPT ![s] = "live"]
    /\ easy_opts' = [easy_opts EXCEPT ![s] = opts]
    /\ send_seen' = [send_seen EXCEPT ![s] = <<>>]
    /\ recipient' = [recipient EXCEPT ![s] = "live"]
    /\ rcbmessage' = [rcbmessage EXCEPT ![s] = "live"]
    /\ send_pc' = [send_pc EXCEPT ![s] = "spin"]
    /\ send_slot' = [send_slot EXCEPT ![s] = 1]
    /\ aborted' = ub_aborts
    /\ UNCHANGED <<is_curl_initialized, cfg_vars, pool_vars, consumer_vars, curl_global,
                   multi_leaked, added_to_released, ctl_vars, last_event, rcb_vars>>

\* One try_lock of the while (true) / for loop (lines 304-313).
send_try_lock(s) ==
    /\ Running
    /\ send_pc[s] = "spin"
    /\ UNCHANGED send_seen
    /\ IF TryLock(send_slot[s])
       THEN /\ curl_multi_handle_mutex' = [curl_multi_handle_mutex EXCEPT ![send_slot[s]] = s]
            /\ send_pc' = [send_pc EXCEPT ![s] = "locked"]
            /\ UNCHANGED send_slot
       ELSE /\ send_slot' = [send_slot EXCEPT ![s] = IF @ < NumSlots THEN @ + 1 ELSE 1]
            /\ UNCHANGED <<curl_multi_handle_mutex, send_pc>>
    /\ UNCHANGED <<is_curl_initialized, cfg_vars, curl_multi_handle, attached, consumer_vars,
                   res_vars, ctl_vars, last_event, aborted, rcb_vars>>

\* A return that leaves the slot locked.
SendReturn_keeps_lock(s) ==
    /\ UNCHANGED curl_multi_handle_mutex
    /\ send_pc' = [send_pc EXCEPT ![s] = "returned"]
    /\ send_slot' = [send_slot EXCEPT ![s] = 1]
    /\ UNCHANGED send_seen

\* The unlock and the return that end every add (lines 326-328).
SendReturn(s) ==
    /\ curl_multi_handle_mutex' = [curl_multi_handle_mutex EXCEPT ![send_slot[s]] = Unlocked]
    /\ send_pc' = [send_pc EXCEPT ![s] = "returned"]
    /\ send_slot' = [send_slot EXCEPT ![s] = 1]
    /\ UNCHANGED send_seen

\* curl_multi_add_handle on a live multi handle succeeds (lines 315-328).
send_add(s) ==
    /\ Running
    /\ send_pc[s] = "locked"
    /\ curl_multi_handle[send_slot[s]] = "live"
    /\ attached' = [attached EXCEPT ![send_slot[s]] = @ \cup {s}]
    /\ SendReturn(s)
    /\ UNCHANGED <<is_curl_initialized, cfg_vars, curl_multi_handle, consumer_vars, res_vars,
                   ctl_vars, last_event, aborted, rcb_vars>>

\* curl_multi_add_handle on a live multi handle returns an error (lines 321-328).
send_add_fails(s) ==
    /\ Running
    /\ send_pc[s] = "locked"
    /\ curl_multi_handle[send_slot[s]] = "live"
    /\ SendReturn(s)
    /\ UNCHANGED <<is_curl_initialized, cfg_vars, curl_multi_handle, attached, consumer_vars,
                   res_vars, ctl_vars, last_event, aborted, rcb_vars>>

\* curl_multi_add_handle on a multi handle smtp_cleanup has cleaned up: a use
\* after free, which either aborts the process or goes unnoticed.
send_add_released(s, ub_aborts) ==
    /\ Running
    /\ send_pc[s] = "locked"
    /\ curl_multi_handle[send_slot[s]] = "freed"
    /\ added_to_released' = added_to_released \cup {s}
    /\ aborted' = ub_aborts
    /\ SendReturn(s)
    /\ UNCHANGED <<is_curl_initialized, cfg_vars, curl_multi_handle, attached, consumer_vars,
                   curl_global, multi_leaked, easy, recipient, rcbmessage, easy_opts, ctl_vars,
                   last_event, rcb_vars>>

\* ---------------------------------------------- the streaming payload source

\* The terminating byte of std::string::c_str().
Nul == "NUL"

\* The headers message.insert(0, fmt::format(...)) puts before the body (line
\* 294), one element per fixed text and per formatted argument.
Header(in) ==
    <<"MIME-Version: 1.0 CRLF Content-Type: text/plain; charset=UTF-8 CRLF",
      "Date: ", in.now, "CRLF From: ", in.from_name, " <", in.from_address,
      "> CRLF To: <", in.to_address, "> CRLF Subject: ", in.subject, "CRLF CRLF">>

\* The composed message: the headers, then the body.
Composed(in) == Header(in) \o in.message

\* rcbmessage->message.c_str(): the characters and the terminating byte.
CStr(message) == message \o <<Nul>>

\* The message is composed and wrapped in a read_callback_message (lines 294-299).
compose ==
    /\ ~aborted
    /\ rcb_pc = "new"
    /\ rcb_message' = Composed(rcb_input)
    /\ rcb_bytes_remaining' = Len(Composed(rcb_input)) + 1
    /\ rcb_pc' = "streaming"
    /\ UNCHANGED <<is_curl_initialized, cfg_vars, pool_vars, consumer_vars, res_vars, ctl_vars,
                   last_event, send_vars, aborted, rcb_input, rcb_buffer_size, rcb_before,
                   rcb_chunk, rcb_ret, rcb_sent>>

\* std::size_t copy_size (line 124).
CopySize(bytes_remaining, buffer_size) ==
    IF bytes_remaining <= buffer_size THEN bytes_remaining ELSE buffer_size

\* read_callback (lines 119-133): std::memcpy copies from the start of c_str().
read_callback(size, nitems) ==
    /\ ~aborted
    /\ rcb_pc = "streaming"
    /\ LET buffer_size == size * nitems
           copy_size == CopySize(rcb_bytes_remaining, buffer_size)
       IN  /\ rcb_buffer_size' = buffer_size
           /\ rcb_before' = rcb_bytes_remaining
           /\ rcb_chunk' = IF copy_size > 0
                           THEN SubSeq(CStr(rcb_message), 1, copy_size)
                           ELSE <<>>
           /\ rcb_bytes_remaining' = IF copy_size > 0
                                     THEN rcb_bytes_remaining - copy_size
                                     ELSE rcb_bytes_remaining
           /\ rcb_sent' = rcb_sent \o rcb_chunk'
           /\ rcb_ret' = copy_size
    /\ UNCHANGED <<is_curl_initialized, cfg_vars, pool_vars, consumer_vars, res_vars, ctl_vars,
                   last_event, send_vars, aborted, rcb_pc, rcb_input, rcb_message>>

\* One message and the calls the transport makes to read it.
ReadInit ==
    /\ ProcessStart
    /\ rcb_pc = "new"
    /\ rcb_input \in MessageInputs
    /\ rcb_message = <<>>
    /\ rcb_bytes_remaining = 0
    /\ rcb_buffer_size = 0
    /\ rcb_before = 0
    /\ rcb_chunk = <<>>
    /\ rcb_ret = -1
    /\ rcb_sent = <<>>

ReadNext ==
    \/ compose
    \/ \E nitems \in 1..MaxCap : read_callback(1, nitems)

ReadSpec == ReadInit /\ [][ReadNext]_vars

\* ------------------------------------------------------------ specification

Controller_step(args) ==
    \/ \E a \in args, fail_at \in AllocOutcomes : smtp_init(a[1], a[2], a[3], a[4], a[5], fail_at)
    \/ \E a \in args : smtp_reconfig(a[1], a[2], a[3], a[4], a[5])
    \/ smtp_init_set_flag
    \/ smtp_cleanup
    \/ smtp_cleanup_join
    \/ smtp_cleanup_release
    \/ smtp_cleanup_global

Consumer_step ==
    \/ consumer_check
    \/ consumer_try_lock
    \/ \E done \in SUBSET Senders : consumer_work(done)

Sender_step(s) ==
    \/ send_call(s)
    \/ send_easy_init_fails(s)
    \/ \E opts \in TornReads(s) : send_recipient_fails(s, opts)
    \/ \E opts \in TornReads(s), ub \in BOOLEAN : send_build(s, opts, ub)
    \/ send_try_lock(s)
    \/ send_add(s)
    \/ send_add_fails(s)
    \/ \E ub \in BOOLEAN : send_add_released(s, ub)

\* The controlling thread, the consumer and every sender thread.
Next ==
    \/ Controller_step(MainArgs)
    \/ Consumer_step
    \/ \E s \in Senders : Sender_step(s)

Spec == Init /\ [][Next]_vars

\* The controlling thread with every argument combination, and the consumer:
\* the lifecycle calls alone.
LifecycleNext ==
    \/ Controller_step(ConfigArgs)
    \/ Consumer_step

LifecycleSpec == Init /\ [][LifecycleNext]_vars

\* The steps of sender s after the test of the flag let it in.
Sender_progress(s) ==
    \/ send_easy_init_fails(s)
    \/ \E opts \in TornReads(s) : send_recipient_fails(s, opts)
    \/ \E opts \in TornReads(s), ub \in BOOLEAN : send_build(s, opts, ub)
    \/ send_try_lock(s)
    \/ send_add(s)
    \/ send_add_fails(s)
    \/ \E ub \in BOOLEAN : send_add_released(s, ub)

\* The controlling thread, the consumer and the first NumFairSenders sender
\* threads under fair scheduling: a lifecycle call that began runs to its
\* return, the consumer and every sender inside a call keep being scheduled, a
\* sender whose try_lock can succeed again and again eventually wins a lock,
\* and the transport eventually finishes every transfer a multi handle holds.
FairNext ==
    \/ Controller_step(MainArgs)
    \/ Consumer_step
    \/ \E s \in FairSenders : Sender_step(s)

Fairness ==
    /\ WF_vars(smtp_init_set_flag)
    /\ WF_vars(smtp_cleanup_join)
    /\ WF_vars(smtp_cleanup_release)
    /\ WF_vars(smtp_cleanup_global)
    /\ WF_vars(Consumer_step)
    /\ \A s \in FairSenders :
          /\ WF_vars(Sender_progress(s))
          /\ SF_vars(send_try_lock(s) /\ send_pc'[s] = "locked")
          /\ SF_vars(\E done \in SUBSET Senders : s \in done /\ consumer_work(done))

FairSpec == Init /\ [][FairNext]_vars /\ Fairness

\* The runs in which smtp_reconfig replaces the configuration beside the
\* consumer and the first NumFairSenders sender threads.
ReconfigNext ==
    \/ Controller_step(ReconfigArgs)
    \/ Consumer_step
    \/ \E s \in FairSenders : Sender_step(s)

ReconfigSpec == Init /\ [][ReconfigNext]_vars

\* ------------------------------------------------------------------ claims

ValidArgs(a) == a[1] # Null /\ a[2] # Null /\ a[3] <= MaxPort /\ a[4] # Null /\ a[5] # Null

\* The snapshot smtp_config stores for valid arguments a.
StoredConfig(a) == [ca |-> a[1], url |-> ServerUrl(a[2]), port |-> a[3], user |-> a[4], pw |-> a[5]]

InitEvents == {"init: already initialized", "init: config rejected",
               "init: multi handle failed", "init: global context failed", "init: ok"}
AllocFailures == {"init: multi handle failed", "init: global context failed"}

\* C2: while the initialization flag is true (from the return of a successful
\* smtp_init to the clearing of the flag by smtp_cleanup) the consumer thread is
\* inside its loop and has not exited.
C2_ConsumerRunsWhileInitialized ==
    is_curl_initialized => smtp_thread \in {"check", "try", "hold"}

\* C7: a send called while the flag is false leaves the sender where it was and
\* changes nothing but the record of its return: no transfer, no transport
\* resource, nothing attached, no lock taken.
C7_SendNotInitializedDoesNothing ==
    [][\A s \in Senders :
          (/\ send_pc[s] = "idle"
           /\ ~is_curl_initialized
           /\ \/ send_pc'[s] # "idle"
              \/ /\ last_event' = Event(s, "send: not initialized", <<>>)
                 /\ last_event' # last_event)
          => UNCHANGED <<is_curl_initialized, cfg_vars, pool_vars, consumer_vars, res_vars,
                         ctl_vars, send_vars, aborted>>]_vars

\* A send returned without doing anything after smtp_cleanup released the pool.
C7_Witness ==
    /\ \E s \in Senders : last_event = Event(s, "send: not initialized", <<>>)
    /\ \A i \in Slots : curl_multi_handle[i] = "freed"
    /\ ctl_pc = "idle"

\* C9: once the consumer has reaped a transfer (cleaned up its easy handle), the
\* recipient list and the read_callback_message of that transfer are released too.
C9_ReapedTransferReleased ==
    \A t \in Senders :
        easy[t] = "freed" => recipient[t] = "freed" /\ rcbmessage[t] = "freed"

\* C10: when smtp_init has returned failure because a multi handle or the
\* global context could not be allocated, the flag is false, the consumer thread
\* was not started and no slot holds a live multi handle.
C10_FailedInitReleasesPool ==
    (ctl_pc = "idle" /\ last_event.what \in AllocFailures)
    => /\ ~is_curl_initialized
       /\ smtp_thread = "none"
       /\ \A i \in Slots : curl_multi_handle[i] # "live"

ArgEvents == {"init: already initialized", "init: config rejected", "init: multi handle failed",
              "init: global context failed", "reconfig: ok", "reconfig: config rejected"}
RejectEvents == {"init: already initialized", "init: config rejected", "reconfig: config rejected"}

\* last_event changes in this step to the return of the controlling thread from
\* a call named in whats.
Returns(whats) ==
    /\ last_event' # last_event
    /\ last_event'.who = Controller
    /\ last_event'.what \in whats

\* C5: smtp_init goes past its tests only while the flag is false and with valid
\* arguments; it then stores the configuration, makes both slots live and starts
\* the consumer, and returns success with the flag true. An smtp_init called
\* while the flag is true returns failure and leaves the flag, the
\* configuration, the pool and the consumer thread as they were. Valid arguments
\* are never rejected as a configuration.
C5_InitOnceOnly ==
    [][/\ (ctl_pc = "idle" /\ ctl_pc' = "init_flag")
          => /\ ~is_curl_initialized
             /\ \E a \in ConfigArgs : ValidArgs(a) /\ Config' = StoredConfig(a)
             /\ \A i \in Slots : curl_multi_handle'[i] = "live"
             /\ smtp_thread = "none" /\ smtp_thread' = "check"
       /\ (ctl_pc = "init_flag" /\ ctl_pc' = "idle")
          => /\ is_curl_initialized'
             /\ last_event' = Event(Controller, "init: ok", <<>>)
             /\ smtp_thread' # "none"
             /\ UNCHANGED <<cfg_vars, curl_multi_handle>>
       /\ Returns({"init: already initialized"})
          => /\ is_curl_initialized
             /\ UNCHANGED <<is_curl_initialized, cfg_vars, pool_vars, consumer_vars>>
       /\ Returns({"init: config rejected"}) => ~ValidArgs(last_event'.args)
       /\ (is_curl_initialized /\ Returns(InitEvents))
          => last_event'.what = "init: already initialized"
      ]_vars

\* A second smtp_init with valid arguments other than the stored ones has
\* returned failure while the component is initialized.
C5_Witness ==
    /\ last_event.who = Controller
    /\ last_event.what = "init: already initialized"
    /\ ValidArgs(last_event.args)
    /\ Config # StoredConfig(last_event.args)
    /\ is_curl_initialized
    /\ \A i \in Slots : curl_multi_handle[i] = "live"

\* C6: an smtp_init or smtp_reconfig called with a port above 65535 or with a
\* null CA path, host, username or password returns failure and leaves every
\* field of the configuration and the flag as they were.
C6_InvalidConfigRejected ==
    [][(Returns(ArgEvents) /\ ~ValidArgs(last_event'.args))
       => /\ last_event'.what \in RejectEvents
          /\ UNCHANGED <<cfg_vars, is_curl_initialized>>
      ]_vars

\* smtp_init with port 65536 has returned failure on a component that was never
\* configured: the configuration is still unset and the flag false.
C6_Witness ==
    /\ last_event = Event(Controller, "init: config rejected",
                          <<"/ca.pem", "mail.example.com", MaxPort + 1, "user", "pw">>)
    /\ Config = UnsetConfig
    /\ ~is_curl_initialized

\* C3: read_callback returns 0 exactly when bytes_remaining has reached 0, it
\* returns a chunk whenever bytes remain, and when it returns 0 the chunks it
\* returned before, concatenated, are the composed message.
C3_ChunksMakeMessage ==
    (rcb_pc = "streaming" /\ rcb_ret >= 0)
    => /\ (rcb_ret = 0) <=> (rcb_before = 0)
       /\ rcb_ret = 0 => rcb_sent = Composed(rcb_input)

\* C4: a read_callback call returns min(bytes_remaining, size * nitems) bytes,
\* which are the next bytes of the message after those already returned, and
\* takes that number off bytes_remaining, which never goes below 0; with
\* bytes_remaining 0 it returns 0 and leaves bytes_remaining 0.
C4_CopiesFromRemainder ==
    (rcb_pc = "streaming" /\ rcb_ret >= 0)
    => LET total == Len(CStr(rcb_message))
           offset == total - rcb_before
       IN  /\ rcb_ret = CopySize(rcb_before, rcb_buffer_size)
           /\ rcb_chunk = SubSeq(CStr(rcb_message), offset + 1, offset + rcb_ret)
           /\ rcb_bytes_remaining = rcb_before - rcb_ret
           /\ rcb_bytes_remaining >= 0
           /\ rcb_before = 0 => rcb_ret = 0 /\ rcb_bytes_remaining = 0

\* The transfer of sender s is in no multi handle and was not reaped: its
\* curl_multi_add_handle returned an error.
AddFailed(s) ==
    /\ send_pc[s] = "returned"
    /\ easy[s] = "live"
    /\ \A i \in Slots : s \notin attached[i]

\* C1: under fair scheduling and a transport that finishes every attached
\* transfer, a send that went past the test of the flag and built its transfer
\* is eventually attached and reaped, unless smtp_cleanup was called, the
\* transport refused the transfer or the process was aborted.
C1_EverySendReaped ==
    \A s \in FairSenders :
        (send_pc[s] = "spin" /\ is_curl_initialized)
        ~> (easy[s] = "freed" \/ ~is_curl_initialized \/ AddFailed(s) \/ aborted)

C11_HandleLiveIffInitialized ==
    ctl_pc = "idle"
    => \A i \in Slots : (curl_multi_handle[i] = "live") <=> is_curl_initialized

\* The threads operating on slot i's multi handle: the consumer between its
\* successful try_lock and its unlock, a sender between its successful try_lock
\* and its unlock.
Operating(i) ==
    (IF smtp_thread = "hold" /\ consumer_slot = i THEN {ConsumerTid} ELSE {})
    \cup {s \in Senders : send_pc[s] = "locked" /\ send_slot[s] = i}

\* C12: every thread that polls, performs, adds to, removes from or reaps slot
\* i's multi handle is the holder of slot i's mutex, so at most one thread
\* operates on a slot at a time.
C12_SlotMutualExclusion ==
    \A i \in Slots :
        /\ Cardinality(Operating(i)) <= 1
        /\ \A t \in Operating(i) : curl_multi_handle_mutex[i] = t

\* The consumer operates on one slot while a sender operates on the other.
C12_Witness ==
    \E i, j \in Slots, s \in Senders :
        i # j /\ Operating(i) = {ConsumerTid} /\ Operating(j) = {s}

\* The slots whose mutex the consumer holds.
ConsumerLocks == {i \in Slots : curl_multi_handle_mutex[i] = ConsumerTid}

\* C13: the consumer holds at most one slot's mutex at a time, so whenever a
\* send is in its try_lock loop some slot's mutex is not held by the consumer.
C13_ConsumerHoldsOneLock ==
    /\ Cardinality(ConsumerLocks) <= 1
    /\ (\E s \in Senders : send_pc[s] = "spin") => \E i \in Slots : i \notin ConsumerLocks

\* A send is in its try_lock loop while the consumer holds a slot's mutex and
\* the other slot's mutex is held by another sender.
C13_Witness ==
    \E s, t \in Senders, i, j \in Slots :
        /\ send_pc[s] = "spin"
        /\ curl_multi_handle_mutex[i] = ConsumerTid
        /\ curl_multi_handle_mutex[j] = t

\* C14: smtp_cleanup goes past the join only once smtp_consumer has returned,
\* cleans up a multi handle only after the join, and releases the global
\* context only when every multi handle is cleaned up; the consumer is never
\* in its loop beside a cleaned-up multi handle.
C14_ReleaseAfterConsumerExit ==
    /\ [][/\ (ctl_pc = "join" /\ ctl_pc' # "join") => smtp_thread = "exited"
          /\ \A i \in Slots :
                (curl_multi_handle[i] # "freed" /\ curl_multi_handle'[i] = "freed")
                => ctl_pc = "release" /\ smtp_thread = "none"
          /\ curl_global' < curl_global => \A i \in Slots : curl_multi_handle[i] = "freed"
         ]_vars
    /\ [](smtp_thread \in {"check", "try", "hold"}
          => \A i \in Slots : curl_multi_handle[i] # "freed")

\* smtp_cleanup has released both multi handles and is about to release the
\* global context, the consumer joined.
C14_Witness ==
    /\ ctl_pc = "global"
    /\ \A i \in Slots : curl_multi_handle[i] = "freed"
    /\ smtp_thread = "none"
    /\ curl_global = 1

\* What a successful smtp_reconfig leaves alone: the flag, the slots, the
\* consumer thread, every resource of every transfer and the options it
\* captured, and the position of every sender.
ReconfigFrame ==
    Returns({"reconfig: ok"})
    => /\ Config' = StoredConfig(last_event'.args)
       /\ UNCHANGED <<is_curl_initialized, pool_vars, consumer_vars, res_vars, send_pc, send_slot>>

\* The options of a transfer are set when it is created and never change.
OptionsCaptured ==
    \A s \in Senders : easy[s] # "none" => easy_opts'[s] = easy_opts[s]

\* Sender s creates its transfer in this step.
Creates(s) == easy[s] = "none" /\ easy'[s] # "none"

\* C15 as stated: a successful smtp_reconfig changes only the configuration,
\* the options of a transfer never change once it is created, and a send whose
\* call began before an smtp_reconfig does not use the values it stored: its
\* transfer has the configuration in effect when the call began.
C15_OnlyLaterSendsUseNewValues ==
    [][/\ ReconfigFrame
       /\ OptionsCaptured
       /\ \A s \in Senders : Creates(s) => easy_opts'[s] = send_seen[s][1]
      ]_vars

\* C15 amended: a successful smtp_reconfig changes only the configuration, the
\* options of a transfer never change once it is created, a send whose call
\* began after the last store has the configuration in effect, and a send that
\* was inside its call beside a store has, field by field, a value from before
\* or after it.
C15_ReconfigFrame ==
    [][/\ ReconfigFrame
       /\ OptionsCaptured
       /\ \A s \in Senders :
             Creates(s) => /\ easy_opts'[s] \in TornReads(s)
                           /\ Len(send_seen[s]) = 1 => easy_opts'[s] = Config
      ]_vars

\* smtp_reconfig has returned success with a transfer attached whose options
\* are still those of the configuration it replaced.
C15_Witness ==
    /\ last_event.who = Controller
    /\ last_event.what = "reconfig: ok"
    /\ Config = StoredConfig(last_event.args)
    /\ \E s \in Senders, i \in Slots :
          s \in attached[i] /\ easy[s] = "live" /\ easy_opts[s] # Config

\* The slots whose multi handle holds transfer t.
SlotsOf(t) == {i \in Slots : t \in attached[i]}

\* C16: the easy handle and the recipient list of a transfer are freed only by
\* the consumer, under the lock of the slot whose multi handle held the
\* transfer, in the step that removes it from that multi handle; a freed
\* transfer stays freed and is in no multi handle again; a transfer is in at
\* most one multi handle, put there by its sender's one add; once the sender
\* has returned, nothing but the consumer's reaping changes the transfer.
C16_ReapedOnceByConsumer ==
    /\ [][\A t \in Senders :
            /\ (easy[t] # "freed" /\ easy'[t] = "freed")
               => /\ smtp_thread = "hold"
                  /\ curl_multi_handle_mutex[consumer_slot] = ConsumerTid
                  /\ easy[t] = "live"
                  /\ SlotsOf(t) = {consumer_slot}
                  /\ \A i \in Slots : t \notin attached'[i]
                  /\ recipient'[t] = "freed"
            /\ easy[t] = "freed"
               => /\ easy'[t] = "freed"
                  /\ recipient'[t] = recipient[t]
                  /\ \A i \in Slots : t \notin attached'[i]
            /\ (send_pc[t] = "returned"
                /\ <<easy'[t], recipient'[t], rcbmessage'[t]>> # <<easy[t], recipient[t], rcbmessage[t]>>)
               => smtp_thread = "hold" /\ t \in attached[consumer_slot]
            /\ \A i \in Slots :
                  (t \notin attached[i] /\ t \in attached'[i])
                  => /\ send_pc[t] = "locked" /\ send_pc'[t] = "returned"
                     /\ send_slot[t] = i
                     /\ easy[t] = "live"
         ]_vars
    /\ [](\A t \in Senders : Cardinality(SlotsOf(t)) <= 1)

\* The consumer has reaped one transfer while another is still attached.
C16_Witness ==
    \E t, u \in Senders :
        /\ easy[t] = "freed" /\ recipient[t] = "freed" /\ SlotsOf(t) = {}
        /\ easy[u] = "live" /\ SlotsOf(u) # {}
        /\ send_pc[t] = "returned" /\ send_pc[u] = "returned"

\* The slots whose mutex sender s holds.
SenderLocks(s) == {i \in Slots : curl_multi_handle_mutex[i] = s}

C18_NoAddToReleased ==
    /\ added_to_released = {}
    /\ \A s \in Senders :
          send_pc[s] = "locked" => curl_multi_handle[send_slot[s]] # "freed"

\* C19: when smtp_cleanup cleans up a slot's multi handle, every transfer still
\* in it has its easy handle, its recipient list and its
\* read_callback_message freed by that step, so none is left allocated when
\* smtp_cleanup returns.
C19_ShutdownFreesAttached ==
    [][\A i \in Slots, t \in Senders :
          (curl_multi_handle[i] = "live" /\ curl_multi_handle'[i] = "freed" /\ t \in attached[i])
          => /\ easy'[t] = "freed"
             /\ recipient'[t] = "freed"
             /\ rcbmessage'[t] = "freed"
      ]_vars

\* A resource of transfer t that is allocated.
Allocated(t) ==
    (IF easy[t] = "live" THEN {"easy"} ELSE {})
    \cup (IF recipient[t] = "live" THEN {"recipient"} ELSE {})
    \cup (IF rcbmessage[t] = "live" THEN {"rcbmessage"} ELSE {})

\* C20: when a send returns after it created its easy handle, every resource
\* it allocated is freed or its transfer is in a slot's multi handle, from
\* which the consumer reaps it.
C20_FailedSendLeavesNothing ==
    [][\A s \in Senders :
          (send_pc[s] # "returned" /\ send_pc'[s] = "returned")
          => (Allocated(s)' = {} \/ SlotsOf(s)' # {})
      ]_vars

====
